---- MODULE Spec2Model ----
(***************************************************************************)
(* A model of vsexprtools: the operator vocabulary and composite builders  *)
(* of exprop.py (ExprOp.__call__, clamp, matrix, convolution, rmse, mae)   *)
(* and the expression pipeline of funcs.py (combine, expr, expr_func).     *)
(*                                                                         *)
(* A Python str is a sequence of one-character strings, so that strip,     *)
(* join and format are computed and not assumed.  A Python value is a      *)
(* record [t, s, n, l]: t is its type, s its characters (str), n its       *)
(* number (int, float), l its items (list, tuple).                         *)
(***************************************************************************)
EXTENDS Integers, Sequences, FiniteSets, TLC

\* ------------------------------------------------------------------ bounds
MaxClips == 5
MaxFix == 3
MaxPlanes == 3
MaxRadius == 2
MaxConvLen == 9
MaxOptLen == 3
MaxPos == 3
MaxRange == 2
MaxSample == 2

VARIABLES
    aka_expr_available, \* util.aka_expr_available: the process-wide backend flag
    pc,                 \* "idle", or "call" while ExprOp.__call__ is in its loop
    op,                 \* the operation last entered
    inp,                \* its arguments
    out,                \* its outcome: [st |-> "return" | "raise" | "run", ...]
    frame               \* the locals of the running ExprOp.__call__: self, args, kwargs

vars == <<aka_expr_available, pc, op, inp, out, frame>>

\* ----------------------------------------------------------- python values
None == [t |-> "none", s |-> <<>>, n |-> 0, l |-> <<>>]

StrV(s) == [t |-> "str", s |-> s, n |-> 0, l |-> <<>>]

IntV(n) == [t |-> "int", s |-> <<>>, n |-> n, l |-> <<>>]

FloatV(n) == [t |-> "float", s |-> <<>>, n |-> n, l |-> <<>>]

ListV(l) == [t |-> "list", s |-> <<>>, n |-> 0, l |-> l]

TupleV(l) == [t |-> "tuple", s |-> <<>>, n |-> 0, l |-> l]

IsNum(v) == v.t \in {"int", "float"}

IsSeq(v) == v.t \in {"list", "tuple"}

\* [v] * n of a Python list: n copies of v, none when n <= 0
Repeat(v, n) == [i \in 1..n |-> v]

RECURSIVE Concat(_)
\* the concatenation of a sequence of sequences
Concat(ss) == IF ss = <<>> THEN <<>> ELSE Head(ss) \o Concat(Tail(ss))

\* ----------------------------------------------------------------- strings
Digit(d) == CASE d = 0 -> "0" [] d = 1 -> "1" [] d = 2 -> "2" [] d = 3 -> "3"
              [] d = 4 -> "4" [] d = 5 -> "5" [] d = 6 -> "6" [] d = 7 -> "7"
              [] d = 8 -> "8" [] d = 9 -> "9"

RECURSIVE NatToStr(_)
NatToStr(n) == IF n < 10 THEN <<Digit(n)>> ELSE NatToStr(n \div 10) \o <<Digit(n % 10)>>

\* the decimal text of an int: format code d, and str() of an int
IntToStr(n) == IF n < 0 THEN <<"-">> \o NatToStr(-n) ELSE NatToStr(n)

\* str(x) of a leaf value; a float of integral value prints with ".0"
PyStr(v) == CASE v.t = "str" -> v.s
              [] v.t = "int" -> IntToStr(v.n)
              [] v.t = "float" -> IntToStr(v.n) \o <<".", "0">>
              [] v.t = "none" -> <<"N", "o", "n", "e">>

Whitespace == {" ", "\t", "\n"}

RECURSIVE LStrip(_)
LStrip(s) == IF s # <<>> /\ Head(s) \in Whitespace THEN LStrip(Tail(s)) ELSE s

RECURSIVE RStrip(_)
RStrip(s) == IF s # <<>> /\ s[Len(s)] \in Whitespace
             THEN RStrip(SubSeq(s, 1, Len(s) - 1)) ELSE s

\* str.strip()
Strip(s) == RStrip(LStrip(s))

RECURSIVE Join(_, _)
\* sep.join(parts)
Join(sep, parts) ==
    IF parts = <<>> THEN <<>>
    ELSE IF Len(parts) = 1 THEN parts[1]
    ELSE parts[1] \o sep \o Join(sep, Tail(parts))

RECURSIVE flatten(_)
\* flatten: nested lists and tuples expanded in order, a str kept whole
flatten(items) ==
    IF items = <<>> THEN <<>>
    ELSE (IF IsSeq(Head(items)) THEN flatten(Head(items).l) ELSE <<Head(items)>>)
         \o flatten(Tail(items))

\* -------------------------------------------------------- ExprToken, ExprOp
RangeMin == <<"r", "a", "n", "g", "e", "_", "m", "i", "n">>

RangeMax == <<"r", "a", "n", "g", "e", "_", "m", "a", "x">>

SQRT == <<"s", "q", "r", "t">>

ABS == <<"a", "b", "s">>

DUP == <<"d", "u", "p">>

MAX == <<"m", "a", "x">>

MIN == <<"m", "i", "n">>

ADD == <<"+">>

SUB == <<"-">>

MUL == <<"*">>

DIV == <<"/">>

CLAMP == <<"c", "l", "a", "m", "p">>

\* a template part: literal text, or a replacement field {key:code}
Lit(s) == [lit |-> TRUE, s |-> s, key |-> "", code |-> ""]

Fld(key, code) == [lit |-> FALSE, s |-> <<>>, key |-> key, code |-> code]

\* '{char:s}[{x:d},{y:d}]'
REL_PIX == <<Fld("char", "s"), Lit(<<"[">>), Fld("x", "d"), Lit(<<",">>),
             Fld("y", "d"), Lit(<<"]">>)>>

\* '{x:d} {y:d} {char:s}[]'
ABS_PIX == <<Fld("x", "d"), Lit(<<" ">>), Fld("y", "d"), Lit(<<" ">>),
             Fld("char", "s"), Lit(<<"[", "]">>)>>

\* a member without replacement fields is its code as one literal
Plain(code) == <<Lit(code)>>

\* ExprOp.__mul__: [self] * n
ExprOpMul(code, n) == Repeat(StrV(code), n)

\* a value fits a format code: d takes an int, s a str
Fits(v, code) == IF code = "d" THEN v.t = "int" ELSE v.t = "str"

RECURSIVE Format(_, _)
\* str.format(*args, **kwargs) of a template with named fields only: the text,
\* or the error of the first field, left to right, that fails: KeyError when
\* kwargs lacks its key, ValueError when the value does not fit its code
Format(tpl, kwargs) ==
    IF tpl = <<>> THEN [ok |-> TRUE, s |-> <<>>, key |-> "", err |-> ""]
    ELSE LET p == Head(tpl) IN
         IF ~p.lit /\ p.key \notin DOMAIN kwargs
         THEN [ok |-> FALSE, s |-> <<>>, key |-> p.key, err |-> "KeyError"]
         ELSE IF ~p.lit /\ ~Fits(kwargs[p.key], p.code)
         THEN [ok |-> FALSE, s |-> <<>>, key |-> p.key, err |-> "ValueError"]
         ELSE LET rest == Format(Tail(tpl), kwargs)
                  here == IF p.lit THEN p.s
                          ELSE IF p.code = "d" THEN IntToStr(kwargs[p.key].n)
                          ELSE kwargs[p.key].s
              IN IF rest.ok THEN [ok |-> TRUE, s |-> here \o rest.s, key |-> "", err |-> ""]
                 ELSE rest

\* kwargs.update({key: v})
Update(kwargs, key, v) ==
    [k \in DOMAIN kwargs \cup {key} |-> IF k = key THEN v ELSE kwargs[k]]

\* mutant: args.pop() takes the last positional argument
CallStep_pop_last(self, args, kwargs) ==
    LET r == Format(self, kwargs) IN
    IF r.ok
    THEN [st |-> "return", val |-> r.s, err |-> "", args |-> args, kwargs |-> kwargs]
    ELSE IF r.err = "KeyError" /\ args # <<>>
    THEN [st |-> "run", val |-> <<>>, err |-> "", args |-> SubSeq(args, 1, Len(args) - 1),
          kwargs |-> Update(kwargs, r.key, args[Len(args)])]
    ELSE [st |-> "raise", val |-> <<>>, err |-> r.err, args |-> args, kwargs |-> kwargs]

\* one pass of the while loop of ExprOp.__call__: only a KeyError is caught
CallStep(self, args, kwargs) ==
    LET r == Format(self, kwargs) IN
    IF r.ok
    THEN [st |-> "return", val |-> r.s, err |-> "", args |-> args, kwargs |-> kwargs]
    ELSE IF r.err = "KeyError" /\ args # <<>>
    THEN [st |-> "run", val |-> <<>>, err |-> "", args |-> Tail(args),
          kwargs |-> Update(kwargs, r.key, Head(args))]
    ELSE [st |-> "raise", val |-> <<>>, err |-> r.err, args |-> args, kwargs |-> kwargs]

RECURSIVE CallRun(_, _, _)
\* ExprOp.__call__ run to its end
CallRun(self, args, kwargs) ==
    LET r == CallStep(self, args, kwargs) IN
    IF r.st = "run" THEN CallRun(self, r.args, r.kwargs) ELSE r

NoKwargs == [k \in {} |-> None]

\* ------------------------------------------------------------ ExprOp.clamp
\* mutant: the fallback closes with MIN
clamp_min(min, max, c) ==
    IF aka_expr_available
    THEN <<c, min, max, StrV(CLAMP)>>
    ELSE <<c, min, StrV(MAX), max, StrV(MIN)>>

clamp(min, max, c) ==
    IF aka_expr_available
    THEN <<c, min, max, StrV(CLAMP)>>
    ELSE <<c, min, StrV(MAX), max, StrV(MAX)>>

\* ----------------------------------------------------------- ExprOp.matrix
\* list(range(lo, hi + 1))
RangeSeq(lo, hi) == [i \in 1..(hi - lo + 1) |-> lo + i - 1]

\* mutant: the square grid taken column by column
coordinates_columns(radius, mode) ==
    IF mode # "SQUARE"
    THEN [i \in 1..(2 * radius + 1) |->
            IF mode = "HORIZONTAL" THEN <<RangeSeq(-radius, radius)[i], 0>>
            ELSE <<0, RangeSeq(-radius, radius)[i]>>]
    ELSE Concat([j \in 1..(2 * radius + 1) |->
            [i \in 1..(2 * radius + 1) |->
                <<RangeSeq(-radius, radius)[j], RangeSeq(-radius, radius)[i]>>]])

coordinates(radius, mode) ==
    IF mode # "SQUARE"
    THEN [i \in 1..(2 * radius + 1) |->
            IF mode = "HORIZONTAL" THEN <<RangeSeq(-radius, radius)[i], 0>>
            ELSE <<0, RangeSeq(-radius, radius)[i]>>]
    ELSE Concat([j \in 1..(2 * radius + 1) |->
            [i \in 1..(2 * radius + 1) |->
                <<RangeSeq(-radius, radius)[i], RangeSeq(-radius, radius)[j]>>]])

\* var if x == y == 0 else ExprOp.REL_PIX(var, x, y)
RelPix(var, xy) ==
    IF xy[1] = 0 /\ xy[2] = 0 THEN StrV(var)
    ELSE StrV(CallRun(REL_PIX, <<StrV(var), IntV(xy[1]), IntV(xy[2])>>, NoKwargs).val)

matrix(var, radius, mode, exclude) ==
    LET kept == SelectSeq(coordinates(radius, mode), LAMBDA xy : xy \notin exclude)
    IN [i \in 1..Len(kept) |-> RelPix(var, kept[i])]

\* ------------------------------------------------------ ExprOp.convolution
\* math.isqrt
isqrt(n) == CHOOSE r \in 0..n : r * r <= n /\ n < (r + 1) * (r + 1)

RECURSIVE Sum(_)
\* sum(map(float, convolution)), on the weights' numbers
Sum(ws) == IF ws = <<>> THEN 0 ELSE Head(ws).n + Sum(Tail(ws))

\* ExprList.mlength: len(self) - 1
mlength(list) == Len(list) - 1

BoolV(b) == [t |-> "bool", s |-> <<>>, n |-> IF b THEN 1 ELSE 0, l |-> <<>>]

\* the radius convolution derives from the weight count
conv_radius(conv_len, mode) ==
    IF mode # "SQUARE" THEN conv_len \div 2 ELSE isqrt(conv_len) \div 2

\* mutant: the check for at least 3 items is missing
conv_check_no_min(conv_len, mode) ==
    IF conv_len % 2 = 0 THEN "convolution length must be odd!"
    ELSE IF mode = "SQUARE" /\ conv_len # isqrt(conv_len) * isqrt(conv_len)
    THEN "with square mode, convolution must represent a square"
    ELSE "ok"

\* the three checks of the weight count, in order: the message raised, or none
conv_check(conv_len, mode) ==
    IF conv_len % 2 = 0 THEN "convolution length must be odd!"
    ELSE IF conv_len < 3 THEN "you must pass at least 3 convolution items!"
    ELSE IF mode = "SQUARE" /\ conv_len # isqrt(conv_len) * isqrt(conv_len)
    THEN "with square mode, convolution must represent a square"
    ELSE "ok"

\* mutant: zero weights are kept as terms
conv_terms_keep_zero(rel_pixels, convolution) ==
    LET n == IF Len(rel_pixels) < Len(convolution) THEN Len(rel_pixels)
             ELSE Len(convolution)
    IN [k \in 1..n |->
          IF convolution[k].n = 1 THEN rel_pixels[k]
          ELSE ListV(<<rel_pixels[k], convolution[k], StrV(MUL)>>)]

\* the terms: zip(rel_pixels, convolution), zero weights dropped
conv_terms(rel_pixels, convolution) ==
    LET n == IF Len(rel_pixels) < Len(convolution) THEN Len(rel_pixels)
             ELSE Len(convolution)
        idx == SelectSeq([i \in 1..n |-> i], LAMBDA i : convolution[i].n # 0)
    IN [k \in 1..Len(idx) |->
          IF convolution[idx[k]].n = 1 THEN rel_pixels[idx[k]]
          ELSE ListV(<<rel_pixels[idx[k]], convolution[idx[k]], StrV(MUL)>>)]

\* the divisor step: divisor True is the sum of the weights, 0 and 1 add nothing
conv_divisor(output, divisor, convolution) ==
    IF divisor.t = "bool" /\ divisor.n = 0 THEN output
    ELSE LET d == IF divisor.t = "bool" THEN FloatV(Sum(convolution)) ELSE divisor
         IN IF d.n \notin {0, 1} THEN output \o <<d, StrV(DIV)>> ELSE output

convolution(var, matrix_, bias, divisor, saturate, mode, premultiply, multiply, clamp_) ==
    LET conv == flatten(matrix_)
        conv_len == Len(conv)
        check == conv_check(conv_len, mode)
    IN IF check # "ok"
       THEN [st |-> "raise", err |-> "ValueError", msg |-> check, val |-> <<>>, radius |-> -1]
       ELSE
       LET radius == conv_radius(conv_len, mode)
           rel_pixels == matrix(var, radius, mode, {})
           terms == conv_terms(rel_pixels, conv)
           o1 == terms \o ExprOpMul(ADD, mlength(terms))
           o2 == IF premultiply # None THEN o1 \o <<premultiply, StrV(MUL)>> ELSE o1
           o3 == conv_divisor(o2, divisor, conv)
           o4 == IF bias # None THEN o3 \o <<bias, StrV(ADD)>> ELSE o3
           o5 == IF ~saturate THEN Append(o4, StrV(ABS)) ELSE o4
           o6 == IF multiply # None THEN o5 \o <<multiply, StrV(MUL)>> ELSE o5
           o7 == IF clamp_
                 THEN Append(o6, ListV(clamp(StrV(RangeMin), StrV(RangeMax), StrV(<<>>))))
                 ELSE o6
       IN [st |-> "return", err |-> "", msg |-> "", val |-> o7, radius |-> radius]

\* ------------------------------------------------- ExprVars, rmse and mae
Alphabet == <<"a", "b", "c", "d", "e", "f", "g", "h", "i", "j", "k", "l", "m",
              "n", "o", "p", "q", "r", "s", "t", "u", "v", "w", "x", "y", "z">>

\* the catalog of clip variables: x, y, z, then a to w
EXPR_VARS == [i \in 1..26 |-> <<Alphabet[((i + 22) % 26) + 1]>>]

\* ExprVars(start, stop): the names at indices start..stop-1
ExprVars(start, stop) == [start |-> start, stop |-> stop]

ExprVarsLen(r) == r.stop - r.start

ExprVarsNames(r) == [i \in 1..ExprVarsLen(r) |-> StrV(EXPR_VARS[r.start + i])]

_parse_planes(planesa, planesb) ==
    LET a == ExprVars(planesa.start, planesa.stop)
        b == IF planesb = None THEN ExprVars(a.stop, a.stop + ExprVarsLen(a))
             ELSE ExprVars(planesb.start, planesb.stop)
    IN IF ExprVarsLen(a) # ExprVarsLen(b)
       THEN [st |-> "raise", err |-> "CustomIndexError", a |-> a, b |-> b]
       ELSE [st |-> "return", err |-> "", a |-> a, b |-> b]

\* zip(planesa, planesb) as pairs of names
PlanePairs(a, b) ==
    [i \in 1..(IF ExprVarsLen(a) < ExprVarsLen(b) THEN ExprVarsLen(a) ELSE ExprVarsLen(b))
        |-> <<ExprVarsNames(a)[i], ExprVarsNames(b)[i]>>]

\* mutant: the square root is missing
rmse_pair_squared(a, b) == ListV(<<a, b, StrV(SUB), StrV(DUP), StrV(MUL)>>)

rmse_pair(a, b) == ListV(<<a, b, StrV(SUB), StrV(DUP), StrV(MUL), StrV(SQRT)>>)

mae_pair(a, b) == ListV(<<a, b, StrV(SUB), StrV(ABS)>>)

rmse(planesa, planesb) ==
    LET p == _parse_planes(planesa, planesb) IN
    IF p.st = "raise" THEN [st |-> "raise", err |-> p.err, val |-> <<>>]
    ELSE LET pairs == PlanePairs(p.a, p.b)
             expr_ == [i \in 1..Len(pairs) |-> rmse_pair(pairs[i][1], pairs[i][2])]
         IN [st |-> "return", err |-> "",
             val |-> Append(expr_, ListV(ExprOpMul(MAX, mlength(expr_))))]

mae(planesa, planesb) ==
    LET p == _parse_planes(planesa, planesb) IN
    IF p.st = "raise" THEN [st |-> "raise", err |-> p.err, val |-> <<>>]
    ELSE LET pairs == PlanePairs(p.a, p.b)
             expr_ == [i \in 1..Len(pairs) |-> mae_pair(pairs[i][1], pairs[i][2])]
         IN [st |-> "return", err |-> "",
             val |-> Append(expr_, ListV(ExprOpMul(MAX, mlength(expr_))))]

\* ------------------------------------------------------------------ funcs
\* util.to_arr: a list or tuple as a list, any other value as [value]
to_arr(v) == IF IsSeq(v) THEN v.l ELSE <<v>>

\* util.normalise_planes: the selected indices among the clip's planes
normalise_planes(n_planes, planes) ==
    IF planes = None THEN 0..(n_planes - 1)
    ELSE {p \in 0..(n_planes - 1) : \E i \in 1..Len(to_arr(planes)) : to_arr(planes)[i].n = p}

\* math.ceil(a / b) for a >= 0 and b > 0
ceil_div(a, b) == (a + b - 1) \div b

\* s[:k] of a list
Prefix(s, k) == SubSeq(s, 1, IF k < Len(s) THEN k ELSE Len(s))

\* the engine call: akarin.Expr takes all five arguments, std.Expr the first three
expr_func(clips, expr_, format, opt, boundary) ==
    IF aka_expr_available
    THEN [engine |-> "akarin", clips |-> clips, expr |-> expr_, format |-> format,
          opt |-> BoolV(opt), boundary |-> BoolV(boundary)]
    ELSE [engine |-> "std", clips |-> clips, expr |-> expr_, format |-> format,
          opt |-> None, boundary |-> None]

_combine_norm__ix(ffix, n_clips) ==
    IF ffix = None THEN Repeat(StrV(<<>>), n_clips)
    ELSE LET l == IF ffix.t \in {"str", "tuple"} THEN <<ffix>> ELSE ffix.l
             k == IF ceil_div(n_clips, Len(l)) > 1 THEN ceil_div(n_clips, Len(l)) ELSE 1
         IN Concat(Repeat(l, k))

\* the expression text: flatten, drop None and '', str and strip, join on ' '
expr_string(expr_) ==
    LET expr_array == flatten(expr_)
        expr_array_filtered == SelectSeq(expr_array, LAMBDA x : x # None /\ x # StrV(<<>>))
    IN Join(<<" ">>, [i \in 1..Len(expr_array_filtered) |->
                        Strip(PyStr(expr_array_filtered[i]))])

\* mutant: the planes counted from 1
plane_exprs_from_one(text, planesl, n_planes) ==
    [i \in 1..n_planes |-> IF i \in planesl THEN text ELSE <<>>]

\* [expr_string if x in planesl else '' for x in range(n_planes)]
plane_exprs(text, planesl, n_planes) ==
    [i \in 1..n_planes |-> IF (i - 1) \in planesl THEN text ELSE <<>>]

\* expr: clips is the clip count, n_planes the plane count of clips[0].format
expr(clips, n_planes, expr_, planes, opt, boundary) ==
    IF clips = 0
    THEN [st |-> "raise", err |-> "IndexError", text |-> <<>>, call |-> None]
    ELSE LET text == expr_string(expr_)
             planesl == normalise_planes(n_planes, planes)
         IN [st |-> "return", err |-> "", text |-> text,
             call |-> expr_func(clips, plane_exprs(text, planesl, n_planes), None, opt, boundary)]

\* [to_arr(x)[:n_clips + 1] for x in (prefixes, EXPR_VARS, suffixes)]
normalized_args(prefixes, suffixes, n_clips) ==
    <<Prefix(to_arr(ListV(prefixes)), n_clips + 1),
      Prefix(to_arr(ListV([i \in 1..Len(EXPR_VARS) |-> StrV(EXPR_VARS[i])])), n_clips + 1),
      Prefix(to_arr(ListV(suffixes)), n_clips + 1)>>

\* zip(*normalized_args): one tuple per index all three lists have
zip3(a) ==
    LET n == CHOOSE m \in {Len(a[1]), Len(a[2]), Len(a[3])} :
                 \A k \in {Len(a[1]), Len(a[2]), Len(a[3])} : m <= k
    IN [i \in 1..n |-> TupleV(<<a[1][i], a[2][i], a[3][i]>>)]

\* mutant: one operator per clip
operators_per_clip(operator, n_clips) == ExprOpMul(operator, n_clips)

\* operator * (n_clips - 1)
operators(operator, n_clips) == ExprOpMul(operator, n_clips - 1)

combine(n_clips, n_planes, operator, suffix, prefix, expr_suffix, expr_prefix, planes, opt, boundary) ==
    IF (IsSeq(prefix) /\ prefix.t = "list" /\ prefix.l = <<>>)
       \/ (IsSeq(suffix) /\ suffix.t = "list" /\ suffix.l = <<>>)
    THEN [st |-> "raise", err |-> "ZeroDivisionError", prefixes |-> <<>>, suffixes |-> <<>>,
          nargs |-> <<>>, args |-> <<>>, text |-> <<>>, call |-> None]
    ELSE LET prefixes == _combine_norm__ix(prefix, n_clips)
             suffixes == _combine_norm__ix(suffix, n_clips)
             nargs == normalized_args(prefixes, suffixes, n_clips)
             args == zip3(nargs)
             r == expr(n_clips, n_planes,
                       <<expr_prefix, ListV(args), ListV(operators(operator, n_clips)), expr_suffix>>,
                       planes, opt, boundary)
         IN [st |-> r.st, err |-> r.err, prefixes |-> prefixes, suffixes |-> suffixes,
             nargs |-> nargs, args |-> args, text |-> r.text, call |-> r.call]

\* ------------------------------------------------- the expression engine
\* One token on the stack machine that evaluates the postfix text: a number
\* is pushed, an operator replaces its operands, any other name is a sample.
EvalStep(stack, tok, env) ==
    LET n == Len(stack)
        top == stack[n]
        snd == stack[n - 1]
        bin(v) == Append(SubSeq(stack, 1, n - 2), v)
        una(v) == Append(SubSeq(stack, 1, n - 1), v)
    IN IF IsNum(tok) THEN Append(stack, tok.n)
       ELSE IF tok.s \in {ADD, SUB, MUL, MAX, MIN} /\ n >= 2
       THEN bin(CASE tok.s = ADD -> snd + top
                  [] tok.s = SUB -> snd - top
                  [] tok.s = MUL -> snd * top
                  [] tok.s = MAX -> IF snd > top THEN snd ELSE top
                  [] tok.s = MIN -> IF snd < top THEN snd ELSE top)
       ELSE IF tok.s = CLAMP /\ n >= 3
       THEN LET x == stack[n - 2]
                lo == IF x > snd THEN x ELSE snd
            IN Append(SubSeq(stack, 1, n - 3), IF lo < top THEN lo ELSE top)
       ELSE IF tok.s = ABS /\ n >= 1 THEN una(IF top < 0 THEN -top ELSE top)
       ELSE IF tok.s = SQRT /\ n >= 1 THEN una(isqrt(IF top < 0 THEN 0 ELSE top))
       ELSE IF tok.s = DUP /\ n >= 1 THEN Append(stack, top)
       ELSE IF tok.s \in DOMAIN env THEN Append(stack, env[tok.s])
       ELSE Append(stack, -999)

RECURSIVE EvalFrom(_, _, _)
EvalFrom(stack, toks, env) ==
    IF toks = <<>> THEN stack
    ELSE EvalFrom(EvalStep(stack, Head(toks), env), Tail(toks), env)

\* the stack the engine is left with after the fragment's tokens
Eval(fragment, env) ==
    EvalFrom(<<>>, SelectSeq(flatten(fragment), LAMBDA x : x # None /\ x # StrV(<<>>)), env)

\* ------------------------------------------------------------------ inputs
Modes == {"SQUARE", "HORIZONTAL", "VERTICAL"}

VarNames == {<<"x">>, <<"y">>}

ClampBounds == {IntV(0), IntV(1), IntV(2), StrV(RangeMin), StrV(RangeMax)}

ClampArgs == {StrV(<<>>), StrV(<<"x">>)}

Excludes == {{}, {<<0, 0>>}, {<<-1, 0>>, <<1, 1>>}, {<<0, -1>>, <<0, 1>>, <<2, 2>>}}

\* weight lists: the first n weights of a cycled base of three
Weights == {-1, 0, 1, 2}

WeightList(n, base) == [i \in 1..n |-> IntV(base[((i - 1) % 3) + 1])]

\* the same weights as rows of three
Rows(ws) ==
    [r \in 1..((Len(ws) + 2) \div 3) |->
        ListV(SubSeq(ws, 3 * r - 2, IF 3 * r < Len(ws) THEN 3 * r ELSE Len(ws)))]

ConvOptions ==
    [bias : {None, IntV(1)}, divisor : {BoolV(TRUE), BoolV(FALSE), IntV(2)},
     saturate : BOOLEAN, premultiply : {None, IntV(2)}, multiply : {None, IntV(3)},
     clamp : BOOLEAN]

DefaultOptions ==
    [bias |-> None, divisor |-> BoolV(TRUE), saturate |-> TRUE, premultiply |-> None,
     multiply |-> None, clamp |-> FALSE]

PlaneRanges ==
    {ExprVars(s, s + n) : s \in 0..1, n \in 0..MaxRange}
    \cup {ExprVars(s, s + n) : s \in 2..3, n \in 1..MaxRange}

\* the keys of a template's replacement fields, in template order
Fields(tpl) == SelectSeq(tpl, LAMBDA p : ~p.lit)

Templates == {REL_PIX, ABS_PIX, Plain(MAX), Plain(ADD)}

KeywordValue(key) == IF key = "char" THEN StrV(<<"k">>) ELSE IF key = "x" THEN IntV(7)
                     ELSE IF key = "y" THEN IntV(-8) ELSE IntV(5)

\* positional values fit for the format code of the field they would fill
PositionalValues(code) == IF code = "s" THEN {StrV(<<"x">>), StrV(<<"y">>)}
                          ELSE {IntV(1), IntV(-12)}

\* positional arguments of length n: the i-th fits the i-th field that the
\* keywords keys leave open, those beyond the open fields are integers
PositionalArgs(tpl, keys, n) ==
    LET open == SelectSeq(Fields(tpl), LAMBDA p : p.key \notin keys)
    IN {a \in [1..n -> PositionalValues("s") \cup PositionalValues("d")] :
          \A i \in 1..n : a[i] \in PositionalValues(IF i <= Len(open) THEN open[i].code ELSE "d")}

FixOptions ==
    {None, StrV(<<"s">>), StrV(<<" ", "t">>), TupleV(<<StrV(<<"a">>), StrV(<<"b">>)>>)}
    \cup {ListV([i \in 1..n |-> StrV(<<"s", Digit(i - 1)>>)]) : n \in 0..MaxFix}

ExprFix == {None, StrV(<<"q">>)}

PlaneSelectors ==
    {None, IntV(0), IntV(1), ListV(<<IntV(0), IntV(2)>>), ListV(<<IntV(1), IntV(1)>>),
     TupleV(<<IntV(2), IntV(1)>>)}

Fragments ==
    {<<StrV(<<"x">>), StrV(<<" ", "y", " ">>), StrV(ADD)>>,
     <<None, ListV(<<StrV(<<"x">>), IntV(2)>>), StrV(<<>>), StrV(MUL)>>,
     <<TupleV(<<StrV(<<"x">>), ListV(<<FloatV(3), StrV(DIV)>>)>>), StrV(<<" ">>), StrV(ABS)>>,
     <<>>}

Idle == [st |-> "none"]

NoFrame == [self |-> <<>>, args |-> <<>>, kwargs |-> NoKwargs]

\* ----------------------------------------------------------------- actions
Init ==
    /\ aka_expr_available \in BOOLEAN
    /\ pc = "idle"
    /\ op = "none"
    /\ inp = <<>>
    /\ out = Idle
    /\ frame = NoFrame

\* no call is running: the program runs one call at a time
Ready == pc = "idle" /\ op = "none"

\* ExprOp.__call__ entered: args = list(pos_args)
ExprOpCall ==
    /\ Ready
    /\ \E self \in Templates, keys \in SUBSET {"char", "x", "y", "w"}, n \in 0..MaxPos :
        \E args \in PositionalArgs(self, keys, n) :
            /\ op' = "call"
            /\ inp' = [self |-> self, args |-> args, kwargs |-> [k \in keys |-> KeywordValue(k)]]
            /\ frame' = [self |-> self, args |-> args, kwargs |-> [k \in keys |-> KeywordValue(k)]]
            /\ out' = [st |-> "run"]
            /\ pc' = "call"
    /\ UNCHANGED aka_expr_available

\* one pass of its loop: return, raise, or take a positional argument and retry
ExprOpCallIter ==
    /\ pc = "call"
    /\ LET r == CallStep(frame.self, frame.args, frame.kwargs) IN
        IF r.st = "run"
        THEN /\ frame' = [frame EXCEPT !.args = r.args, !.kwargs = r.kwargs]
             /\ UNCHANGED <<pc, out>>
        ELSE /\ out' = r
             /\ pc' = "idle"
             /\ frame' = NoFrame
    /\ UNCHANGED <<aka_expr_available, op, inp>>

Clamp ==
    /\ Ready
    /\ \E min \in ClampBounds, max \in ClampBounds, c \in ClampArgs :
        /\ op' = "clamp"
        /\ inp' = [min |-> min, max |-> max, c |-> c]
        /\ out' = [st |-> "return", val |-> clamp(min, max, c)]
    /\ UNCHANGED <<aka_expr_available, pc, frame>>

Matrix ==
    /\ Ready
    /\ \E var \in VarNames, radius \in 0..MaxRadius, mode \in Modes, exclude \in Excludes :
        /\ op' = "matrix"
        /\ inp' = [var |-> var, radius |-> radius, mode |-> mode, exclude |-> exclude]
        /\ out' = [st |-> "return", val |-> matrix(var, radius, mode, exclude)]
    /\ UNCHANGED <<aka_expr_available, pc, frame>>

Convolution ==
    /\ Ready
    /\ \E n \in 0..MaxConvLen, base \in [1..3 -> Weights], mode \in Modes,
          nested \in BOOLEAN, o \in ConvOptions :
        /\ o = DefaultOptions \/ n <= MaxOptLen
        /\ ~nested \/ n > 3
        /\ LET ws == WeightList(n, base)
               m == IF nested THEN Rows(ws) ELSE ws
           IN /\ op' = "convolution"
              /\ inp' = [var |-> <<"x">>, matrix |-> m, weights |-> ws, mode |-> mode, o |-> o]
              /\ out' = convolution(<<"x">>, m, o.bias, o.divisor, o.saturate, mode,
                                    o.premultiply, o.multiply, o.clamp)
    /\ UNCHANGED <<aka_expr_available, pc, frame>>

Rmse ==
    /\ Ready
    /\ \E planesa \in PlaneRanges, planesb \in PlaneRanges \cup {None} :
        /\ op' = "rmse"
        /\ inp' = [planesa |-> planesa, planesb |-> planesb]
        /\ out' = rmse(planesa, planesb)
    /\ UNCHANGED <<aka_expr_available, pc, frame>>

Mae ==
    /\ Ready
    /\ \E planesa \in PlaneRanges, planesb \in PlaneRanges \cup {None} :
        /\ op' = "mae"
        /\ inp' = [planesa |-> planesa, planesb |-> planesb]
        /\ out' = mae(planesa, planesb)
    /\ UNCHANGED <<aka_expr_available, pc, frame>>

Expr ==
    /\ Ready
    /\ \E clips \in 0..2, n_planes \in 1..MaxPlanes, e \in Fragments,
          planes \in PlaneSelectors, opt \in BOOLEAN, boundary \in BOOLEAN :
        /\ op' = "expr"
        /\ inp' = [clips |-> clips, n_planes |-> n_planes, expr |-> e, planes |-> planes,
                   opt |-> opt, boundary |-> boundary]
        /\ out' = expr(clips, n_planes, e, planes, opt, boundary)
    /\ UNCHANGED <<aka_expr_available, pc, frame>>

Combine ==
    /\ Ready
    /\ \E n_clips \in 0..MaxClips, n_planes \in 1..MaxPlanes, operator \in {ADD, MAX},
          suffix \in FixOptions, prefix \in FixOptions, ef \in ExprFix \X ExprFix,
          planes \in {None, IntV(1)} :
        /\ op' = "combine"
        /\ inp' = [n_clips |-> n_clips, n_planes |-> n_planes, operator |-> operator,
                   suffix |-> suffix, prefix |-> prefix, expr_suffix |-> ef[1],
                   expr_prefix |-> ef[2], planes |-> planes]
        /\ out' = combine(n_clips, n_planes, operator, suffix, prefix, ef[1], ef[2],
                          planes, FALSE, FALSE)
    /\ UNCHANGED <<aka_expr_available, pc, frame>>

\* the caller takes the outcome; the next call starts afresh
Return ==
    /\ pc = "idle"
    /\ op # "none"
    /\ op' = "none"
    /\ inp' = <<>>
    /\ out' = Idle
    /\ UNCHANGED <<aka_expr_available, pc, frame>>

Next ==
    \/ ExprOpCall
    \/ ExprOpCallIter
    \/ Clamp
    \/ Matrix
    \/ Convolution
    \/ Rmse
    \/ Mae
    \/ Expr
    \/ Combine
    \/ Return

Spec == Init /\ [][Next]_vars

\* a call of ExprOp.__call__ that has begun runs on: the program is one thread
FairSpec == Spec /\ WF_vars(ExprOpCallIter)

\* ------------------------------------------------------------------ claims
\* the text var[dx,dy] of a relative pixel reference, the bare var at the centre
ExpectedRef(var, xy) ==
    IF xy = <<0, 0>> THEN StrV(var)
    ELSE StrV(var \o <<"[">> \o IntToStr(xy[1]) \o <<",">> \o IntToStr(xy[2]) \o <<"]">>)

\* the k-th coordinate (from 0) of the enumeration: rows outer, columns inner
ExpectedCoord(radius, mode, k) ==
    LET w == 2 * radius + 1 IN
    IF mode = "SQUARE" THEN <<(k % w) - radius, (k \div w) - radius>>
    ELSE IF mode = "HORIZONTAL" THEN <<k - radius, 0>>
    ELSE <<0, k - radius>>

ExpectedMatrix(var, radius, mode, exclude) ==
    LET w == 2 * radius + 1
        count == IF mode = "SQUARE" THEN w * w ELSE w
        ks == SelectSeq([i \in 1..count |-> i - 1],
                        LAMBDA k : ExpectedCoord(radius, mode, k) \notin exclude)
    IN [i \in 1..Len(ks) |-> ExpectedRef(var, ExpectedCoord(radius, mode, ks[i]))]

\* C4: clamp(min=A, max=B, c=C) returns exactly [C, A, B, CLAMP] when the
\* backend flag is true and exactly [C, A, MAX, B, MAX] when it is false.
C4_ClampFragments ==
    (op = "clamp") =>
        /\ out.st = "return"
        /\ aka_expr_available =>
            out.val = <<inp.c, inp.min, inp.max, StrV(<<"c", "l", "a", "m", "p">>)>>
        /\ ~aka_expr_available =>
            out.val = <<inp.c, inp.min, StrV(<<"m", "a", "x">>), inp.max,
                        StrV(<<"m", "a", "x">>)>>

C4_Witness ==
    /\ op = "clamp"
    /\ ~aka_expr_available
    /\ inp.min = IntV(0) /\ inp.max = IntV(2) /\ inp.c = StrV(<<"x">>)
    /\ Len(out.val) = 5

\* C10: for every sample c and bounds min <= max, the fragment clamp returns
\* evaluates to a value v with min <= v <= max, the value of the clamp
\* operator, whether or not the extended engine is available.
C10_ClampEquivalent ==
    (op = "clamp" /\ inp.c = StrV(<<"x">>) /\ IsNum(inp.min) /\ IsNum(inp.max)
        /\ inp.min.n <= inp.max.n) =>
        \A c \in 0..MaxSample :
            LET stack == Eval(out.val, [v \in {<<"x">>} |-> c])
                lo == IF c > inp.min.n THEN c ELSE inp.min.n
            IN /\ Len(stack) = 1
               /\ inp.min.n <= stack[1] /\ stack[1] <= inp.max.n
               /\ stack[1] = IF lo < inp.max.n THEN lo ELSE inp.max.n

\* C7: matrix enumerates the (2r+1)^2 grid row by row (dy outer, dx inner) in
\* square mode and the 2r+1 offsets of the one axis in a line mode, skips
\* exactly the excluded coordinates, and gives the bare variable for (0,0)
\* and var[dx,dy] for any other coordinate.
C7_MatrixOrder ==
    (op = "matrix") =>
        /\ out.st = "return"
        /\ out.val = ExpectedMatrix(inp.var, inp.radius, inp.mode, inp.exclude)
        /\ (inp.mode = "SQUARE" /\ inp.radius = 1 /\ inp.exclude = {}) =>
            /\ Len(out.val) = 9
            /\ out.val[1] = StrV(inp.var \o <<"[", "-", "1", ",", "-", "1", "]">>)
            /\ out.val[2] = StrV(inp.var \o <<"[", "0", ",", "-", "1", "]">>)
            /\ out.val[5] = StrV(inp.var)
            /\ out.val[9] = StrV(inp.var \o <<"[", "1", ",", "1", "]">>)

C7_Witness ==
    /\ op = "matrix"
    /\ inp.mode = "SQUARE" /\ inp.radius = 1 /\ inp.exclude = {} /\ inp.var = <<"x">>
    /\ Len(out.val) = 9
    /\ out.val[4] = StrV(<<"x", "[", "-", "1", ",", "0", "]">>)

\* C5: convolution fails with InvalidInput (ValueError), with no fragment
\* built, exactly when the weight count is even, or below 3, or the mode is
\* square and the count is no perfect square; otherwise it succeeds with
\* radius count // 2 in a line mode and isqrt(count) // 2 in square mode.
C5_ConvolutionChecks ==
    (op = "convolution") =>
        LET n == Len(inp.weights)
            square == \E k \in 0..n : k * k = n
            bad == (n % 2 = 0) \/ (n < 3) \/ (inp.mode = "SQUARE" /\ ~square)
        IN /\ bad => (out.st = "raise" /\ out.err = "ValueError" /\ out.val = <<>>)
           /\ ~bad => /\ out.st = "return"
                      /\ inp.mode # "SQUARE" => out.radius = n \div 2
                      /\ inp.mode = "SQUARE" =>
                            \E k \in 0..n : k * k = n /\ out.radius = k \div 2

C5_Witness ==
    /\ op = "convolution"
    /\ inp.mode = "SQUARE" /\ Len(inp.weights) = 5
    /\ out.st = "raise"

RECURSIVE ExpectedTerms(_, _)
\* one term per non-zero weight, in order
ExpectedTerms(refs, ws) ==
    IF refs = <<>> \/ ws = <<>> THEN <<>>
    ELSE (IF Head(ws).n = 0 THEN <<>>
          ELSE IF Head(ws).n = 1 THEN <<Head(refs)>>
          ELSE <<ListV(<<Head(refs), Head(ws), StrV(<<"*">>)>>)>>)
         \o ExpectedTerms(Tail(refs), Tail(ws))

RECURSIVE Total(_)
Total(ws) == IF ws = <<>> THEN 0 ELSE Total(Tail(ws)) + Head(ws).n

\* C6: for an accepted weight list with a non-zero weight and default options,
\* convolution emits one term per non-zero weight in matrix order (the bare
\* reference for weight 1, [ref, weight, MUL] otherwise), then ADD (terms - 1)
\* times, then [divisor, DIV] iff the sum of the weights is neither 0 nor 1.
C6_ConvolutionTerms ==
    (op = "convolution" /\ out.st = "return" /\ inp.o = DefaultOptions
        /\ \E i \in 1..Len(inp.weights) : inp.weights[i].n # 0) =>
        LET n == Len(inp.weights)
            radius == IF inp.mode = "SQUARE"
                      THEN CHOOSE r \in 0..n : (2 * r + 1) * (2 * r + 1) = n
                      ELSE (n - 1) \div 2
            terms == ExpectedTerms(ExpectedMatrix(inp.var, radius, inp.mode, {}), inp.weights)
            adds == [i \in 1..(Len(terms) - 1) |-> StrV(<<"+">>)]
            sum == Total(inp.weights)
        IN out.val = terms \o adds
                     \o (IF sum # 0 /\ sum # 1 THEN <<FloatV(sum), StrV(<<"/">>)>> ELSE <<>>)

C6_Witness ==
    /\ op = "convolution"
    /\ inp.mode = "HORIZONTAL" /\ inp.o = DefaultOptions
    /\ inp.weights = <<IntV(1), IntV(0), IntV(1)>>
    /\ out.val = <<StrV(<<"x", "[", "-", "1", ",", "0", "]">>),
                   StrV(<<"x", "[", "1", ",", "0", "]">>), StrV(<<"+">>),
                   FloatV(2), StrV(<<"/">>)>>

\* the plane ranges _parse_planes settles on: b defaults to the block after a
RangeA == inp.planesa

RangeB ==
    IF inp.planesb = None
    THEN [start |-> inp.planesa.stop,
          stop |-> inp.planesa.stop + (inp.planesa.stop - inp.planesa.start)]
    ELSE inp.planesb

\* the catalog name of the i-th plane (from 1) of a range
PlaneName(r, i) == StrV(EXPR_VARS[r.start + i])

\* C8: for two equal-length plane ranges rmse emits [a, b, SUB, DUP, MUL, SQRT]
\* per pair and mae [a, b, SUB, ABS], each followed by MAX (pairs - 1) times,
\* and both evaluate to the maximum absolute per-plane difference for every
\* assignment of samples; ranges of unequal length fail in both builders.
C8_RmseMae ==
    (op \in {"rmse", "mae"}) =>
        LET k == RangeA.stop - RangeA.start
            pair(i) == IF op = "rmse"
                       THEN <<PlaneName(RangeA, i), PlaneName(RangeB, i), StrV(<<"-">>),
                              StrV(<<"d", "u", "p">>), StrV(<<"*">>), StrV(<<"s", "q", "r", "t">>)>>
                       ELSE <<PlaneName(RangeA, i), PlaneName(RangeB, i), StrV(<<"-">>),
                              StrV(<<"a", "b", "s">>)>>
            names == {PlaneName(RangeA, i).s : i \in 1..k} \cup {PlaneName(RangeB, i).s : i \in 1..k}
            abs(d) == IF d < 0 THEN -d ELSE d
            diff(env, i) == abs(env[PlaneName(RangeA, i).s] - env[PlaneName(RangeB, i).s])
        IN IF k # RangeB.stop - RangeB.start
           THEN out.st = "raise" /\ out.err = "CustomIndexError"
                /\ rmse(inp.planesa, inp.planesb).st = "raise"
                /\ mae(inp.planesa, inp.planesb).st = "raise"
           ELSE /\ out.st = "return"
                /\ flatten(out.val) = Concat([i \in 1..k |-> pair(i)])
                                      \o [i \in 1..(k - 1) |-> StrV(<<"m", "a", "x">>)]
                /\ \A env \in [names -> 0..MaxSample] :
                    /\ Eval(rmse(inp.planesa, inp.planesb).val, env) = Eval(out.val, env)
                    /\ Eval(mae(inp.planesa, inp.planesb).val, env) = Eval(out.val, env)
                    /\ k >= 1 =>
                        /\ Len(Eval(out.val, env)) = 1
                        /\ \A i \in 1..k : diff(env, i) <= Eval(out.val, env)[1]
                        /\ \E i \in 1..k : diff(env, i) = Eval(out.val, env)[1]

C8_Witness ==
    /\ op = "rmse"
    /\ inp.planesa = ExprVars(0, 2) /\ inp.planesb = None
    /\ out.st = "return"
    /\ Eval(out.val, [v \in {<<"x">>, <<"y">>, <<"z">>, <<"a">>} |->
                        IF v = <<"y">> THEN 2 ELSE IF v = <<"z">> THEN 1 ELSE 0]) = <<2>>

\* the value a call gives the placeholder key: its keyword value, else the
\* positional argument at the key's rank among the placeholders left open
Filled(order, key) ==
    IF key \in DOMAIN inp.kwargs THEN inp.kwargs[key]
    ELSE inp.args[Cardinality({j \in 1..Len(order) :
            /\ order[j] \notin DOMAIN inp.kwargs
            /\ j <= CHOOSE m \in 1..Len(order) : order[m] = key})]

C9_Filled ==
    (op = "call" /\ pc = "idle") =>
        LET order == IF inp.self = REL_PIX THEN <<"char", "x", "y">>
                     ELSE IF inp.self = ABS_PIX THEN <<"x", "y", "char">>
                     ELSE <<>>
            open == Cardinality({j \in 1..Len(order) : order[j] \notin DOMAIN inp.kwargs})
            char == Filled(order, "char").s
            x == IntToStr(Filled(order, "x").n)
            y == IntToStr(Filled(order, "y").n)
        IN /\ out.st \in {"return", "raise"}
           /\ out.st = "raise" <=> open > Len(inp.args)
           /\ out.st = "raise" => out.err = "KeyError"
           /\ (out.st = "return" /\ inp.self = REL_PIX) =>
                out.val = char \o <<"[">> \o x \o <<",">> \o y \o <<"]">>
           /\ (out.st = "return" /\ inp.self = ABS_PIX) =>
                out.val = x \o <<" ">> \o y \o <<" ">> \o char \o <<"[", "]">>
           /\ inp.self = <<Lit(<<"m", "a", "x">>)>> => out.val = <<"m", "a", "x">>
           /\ inp.self = <<Lit(<<"+">>)>> => out.val = <<"+">>

ClipVars(n) == [i \in 1..n |-> <<<<"x">>, <<"y">>, <<"z">>, <<"a">>, <<"b">>, <<"c">>, <<"d">>>>[i]]

NoFixes ==
    /\ inp.prefix = None /\ inp.suffix = None
    /\ inp.expr_prefix = None /\ inp.expr_suffix = None

RECURSIVE LeftFold(_, _)
\* 'x', 'x y op', 'x y op z op', ...
LeftFold(n, operator) ==
    IF n = 1 THEN <<"x">>
    ELSE LeftFold(n - 1, operator) \o <<" ">> \o ClipVars(n)[n] \o <<" ">> \o operator

\* C1 as stated: combine without prefixes and suffixes gives the left fold
\* with op interleaved, 'x y op z op' for 3 clips.
C1_LeftFold ==
    (op = "combine" /\ inp.n_clips >= 1 /\ NoFixes) =>
        out.st = "return" /\ out.text = LeftFold(inp.n_clips, inp.operator)

\* C1 amended: combine over n >= 1 clips without prefixes and suffixes gives
\* the n clip variables in catalog order followed by op repeated n - 1 times,
\* 'x', 'x y op', 'x y z op op': op stands n - 1 times, after the last variable.
C1_VarsThenOps ==
    (op = "combine" /\ inp.n_clips >= 1 /\ NoFixes) =>
        /\ out.st = "return"
        /\ out.text = Join(<<" ">>, ClipVars(inp.n_clips)
                                    \o [i \in 1..(inp.n_clips - 1) |-> inp.operator])
        /\ (inp.n_clips = 3 /\ inp.operator = <<"+">>) =>
                out.text = <<"x", " ", "y", " ", "z", " ", "+", " ", "+">>

C1_Witness ==
    /\ op = "combine" /\ inp.n_clips = 3 /\ NoFixes /\ inp.operator = <<"+">>
    /\ out.text = <<"x", " ", "y", " ", "z", " ", "+", " ", "+">>

\* entry i (from 1) of a prefix or suffix made to cover the clips: '' when
\* absent, the scalar or tuple itself, the list cycled
Cycled(ffix, i) ==
    IF ffix = None THEN StrV(<<>>)
    ELSE IF ffix.t = "list" THEN ffix.l[((i - 1) % Len(ffix.l)) + 1]
    ELSE ffix

\* C2: for n >= 1 clips and any prefix and suffix, combine normalizes both to
\* exactly n entries (a scalar repeated, a list cycled) and builds exactly n
\* (prefix, variable, suffix) units on the first n catalog variables.
C2_ExactlyNUnits ==
    (op = "combine" /\ inp.n_clips >= 1 /\ out.st = "return") =>
        /\ Len(out.nargs[1]) = inp.n_clips
        /\ Len(out.nargs[3]) = inp.n_clips
        /\ Len(out.args) = inp.n_clips
        /\ \A i \in 1..inp.n_clips :
            out.args[i] = TupleV(<<Cycled(inp.prefix, i), StrV(ClipVars(inp.n_clips)[i]),
                                   Cycled(inp.suffix, i)>>)

\* the raw selector names plane i
Selects(planes, i) ==
    IF planes = None THEN TRUE
    ELSE IF planes.t = "int" THEN planes.n = i
    ELSE \E j \in 1..Len(planes.l) : planes.l[j].n = i

\* C3: expr, for a first clip of P planes, submits exactly P strings: the
\* assembled text at each selected plane index and '' at every other; an
\* absent selector selects every plane.
C3_PlaneTexts ==
    (op = "expr" /\ inp.clips >= 1) =>
        /\ out.st = "return"
        /\ Len(out.call.expr) = inp.n_planes
        /\ \A i \in 0..(inp.n_planes - 1) :
            out.call.expr[i + 1] = IF Selects(inp.planes, i) THEN out.text ELSE <<>>
        /\ inp.expr = <<StrV(<<"x">>), StrV(<<" ", "y", " ">>), StrV(<<"+">>)>> =>
            out.text = <<"x", " ", "y", " ", "+">>

C3_Witness ==
    /\ op = "expr" /\ inp.n_planes = 3 /\ inp.planes = IntV(1)
    /\ out.st = "return"
    /\ out.call.expr = <<<<>>, <<"x", " ", "y", " ", "+">>, <<>>>>

====
